---- MODULE Spec2Model ----
(***************************************************************************)
(* state-local: a local state container.  createState(initial, handler)    *)
(* validates its arguments and returns [getState, setState]; setState      *)
(* resolves a change, validates it against the initial state, merges it    *)
(* and notifies the handler(s).                                            *)
(*                                                                         *)
(* The validators (src/unnamed/part_000) and the utilities (the tail of    *)
(* src/src/spec.js) are modelled from their code.  The factory itself      *)
(* (create, extractChanges, updateState, didStateUpdate) is not among the  *)
(* source files; it is modelled from spec.md section 4.2.                  *)
(***************************************************************************)
EXTENDS Integers, Sequences, FiniteSets, TLC

(***************************************************************************)
(* JavaScript values.  A value is a record                                 *)
(*   kind    : the value's sort (undefined, null, boolean, number, string, *)
(*             array, function, object)                                    *)
(*   lit     : the literal of a primitive, or the name of a function       *)
(*   entries : the own enumerable properties, in insertion order, as a     *)
(*             sequence of <<key, value>> pairs (what Object.keys walks)   *)
(***************************************************************************)
Val(kind, lit, entries) == [kind |-> kind, lit |-> lit, entries |-> entries]

Undefined == Val("undefined", "undefined", <<>>)
Null      == Val("null", "null", <<>>)
Num(l)    == Val("number", l, <<>>)
Str(l)    == Val("string", l, <<>>)
Bool(l)   == Val("boolean", l, <<>>)
Fn(name)  == Val("function", name, <<>>)
Obj(e)    == Val("object", "", e)
Arr(e)    == Val("array", "", e)

\* Object.keys(obj): the own keys in insertion order
ObjectKeys(obj) == [i \in 1..Len(obj.entries) |-> obj.entries[i][1]]

\* Object.values(obj): the own values in insertion order
ObjectValues(obj) == [i \in 1..Len(obj.entries) |-> obj.entries[i][2]]

KeySet(obj) == {obj.entries[i][1] : i \in 1..Len(obj.entries)}

\* obj[key] for an own key
Get(obj, key) ==
  LET i == CHOOSE j \in 1..Len(obj.entries) : obj.entries[j][1] = key
  IN  obj.entries[i][2]

\* truthiness of a value, as `!value` tests it
Truthy(value) ==
  CASE value.kind \in {"undefined", "null"} -> FALSE
    [] value.kind = "number"  -> value.lit \notin {"0", "NaN"}
    [] value.kind = "string"  -> value.lit # ""
    [] value.kind = "boolean" -> value.lit = "true"
    [] OTHER -> TRUE

\* typeof value
TypeOf(value) ==
  CASE value.kind = "undefined" -> "undefined"
    [] value.kind = "function"  -> "function"
    [] value.kind = "number"    -> "number"
    [] value.kind = "string"    -> "string"
    [] value.kind = "boolean"   -> "boolean"
    [] OTHER -> "object"

\* ({}).toString.call(value), as a sequence of characters
ObjectPrefix == <<"[", "o", "b", "j", "e", "c", "t", " ">>

ClassName(value) ==
  CASE value.kind = "undefined" -> <<"U", "n", "d", "e", "f", "i", "n", "e", "d">>
    [] value.kind = "null"      -> <<"N", "u", "l", "l">>
    [] value.kind = "boolean"   -> <<"B", "o", "o", "l", "e", "a", "n">>
    [] value.kind = "number"    -> <<"N", "u", "m", "b", "e", "r">>
    [] value.kind = "string"    -> <<"S", "t", "r", "i", "n", "g">>
    [] value.kind = "array"     -> <<"A", "r", "r", "a", "y">>
    [] value.kind = "function"  -> <<"F", "u", "n", "c", "t", "i", "o", "n">>
    [] value.kind = "object"    -> <<"O", "b", "j", "e", "c", "t">>

toString(value) == ObjectPrefix \o ClassName(value) \o <<"]">>

\* String.prototype.includes
includes(s, sub) ==
  \E i \in 0..(Len(s) - Len(sub)) :
     \A j \in 1..Len(sub) : s[i + j] = sub[j]

(***************************************************************************)
(* utils                                                                   *)
(***************************************************************************)
\* isObject by typeof: arrays and null pass for objects
isObject_Typeof(value) == TypeOf(value) = "object"

isObject(value) == includes(toString(value), <<"O", "b", "j", "e", "c", "t">>)

isEmpty(obj) == Len(ObjectKeys(obj)) = 0

\* isFunction comparing typeof with a misspelt name: nothing is a function
isFunction_WrongCase(value) == TypeOf(value) = "Function"

isFunction(value) == TypeOf(value) = "function"

hasOwnProperty(object, property) ==
  \E i \in 1..Len(object.entries) : object.entries[i][1] = property

(***************************************************************************)
(* validators: error messages and the throwing helper.  A validator is     *)
(* modelled by the message it throws, NoError when it returns normally.    *)
(***************************************************************************)
NoError == "none"

errorMessages ==
  [ initialIsRequired |-> "initial state is required",
    initialType       |-> "initial state should be an object",
    initialContent    |-> "initial state shouldn't be an empty object",
    handlerType       |-> "handler should be an object or a function",
    handlersType      |-> "all handlers should be a functions",
    selectorType      |-> "selector should be a function",
    changeType        |-> "provided value of changes should be an object",
    changeField       |-> "it seams you want to change a field in the state which is not specified in the \"initial\" state",
    \* the source puts state-local between backquotes
    default           |-> "an unknown error accured in state-local package" ]

throwError(messages, type) ==
  IF type \in DOMAIN messages THEN messages[type] ELSE messages["default"]

errorHandler(type) == throwError(errorMessages, type)

\* validateChanges without its field check
validateChanges_NoFieldCheck(initial, changes) ==
  IF ~isObject(changes)
    THEN [err |-> errorHandler("changeType"), ret |-> Undefined]
    ELSE [err |-> NoError, ret |-> changes]

\* validateChanges with `every` for `some`: it throws only when no key of
\* the change is a key of the initial state
validateChanges_Every(initial, changes) ==
  IF ~isObject(changes)
    THEN [err |-> errorHandler("changeType"), ret |-> Undefined]
  ELSE IF Len(ObjectKeys(changes)) > 0
          /\ \A i \in 1..Len(ObjectKeys(changes)) :
                ~hasOwnProperty(initial, ObjectKeys(changes)[i])
    THEN [err |-> errorHandler("changeField"), ret |-> Undefined]
  ELSE [err |-> NoError, ret |-> changes]

\* validateChanges without its `return changes`
validateChanges_NoReturn(initial, changes) ==
  IF ~isObject(changes)
    THEN [err |-> errorHandler("changeType"), ret |-> Undefined]
  ELSE IF \E i \in 1..Len(ObjectKeys(changes)) :
             ~hasOwnProperty(initial, ObjectKeys(changes)[i])
    THEN [err |-> errorHandler("changeField"), ret |-> Undefined]
  ELSE [err |-> NoError, ret |-> Undefined]

\* validateChanges returning its first parameter for its second
validateChanges_ReturnsInitial(initial, changes) ==
  IF ~isObject(changes)
    THEN [err |-> errorHandler("changeType"), ret |-> Undefined]
  ELSE IF \E i \in 1..Len(ObjectKeys(changes)) :
             ~hasOwnProperty(initial, ObjectKeys(changes)[i])
    THEN [err |-> errorHandler("changeField"), ret |-> Undefined]
  ELSE [err |-> NoError, ret |-> initial]

\* validateChanges with its two checks in the other order
validateChanges_FieldFirst(initial, changes) ==
  IF \E i \in 1..Len(ObjectKeys(changes)) :
        ~hasOwnProperty(initial, ObjectKeys(changes)[i])
    THEN [err |-> errorHandler("changeField"), ret |-> Undefined]
  ELSE IF ~isObject(changes)
    THEN [err |-> errorHandler("changeType"), ret |-> Undefined]
  ELSE [err |-> NoError, ret |-> changes]

\* validateChanges returning the change rebuilt key by key in the order of
\* the initial state's keys
validateChanges_InitialOrder(initial, changes) ==
  IF ~isObject(changes)
    THEN [err |-> errorHandler("changeType"), ret |-> Undefined]
  ELSE IF \E i \in 1..Len(ObjectKeys(changes)) :
             ~hasOwnProperty(initial, ObjectKeys(changes)[i])
    THEN [err |-> errorHandler("changeField"), ret |-> Undefined]
  ELSE LET kept == SelectSeq(initial.entries,
                             LAMBDA e : hasOwnProperty(changes, e[1]))
       IN  [err |-> NoError,
            ret |-> Obj([i \in 1..Len(kept) |->
                           <<kept[i][1], Get(changes, kept[i][1])>>])]

\* the first check that throws decides; [err, ret] is the thrown message
\* (NoError if none) and the returned value
validateChanges(initial, changes) ==
  IF ~isObject(changes)
    THEN [err |-> errorHandler("changeType"), ret |-> Undefined]
  ELSE IF \E i \in 1..Len(ObjectKeys(changes)) :
             ~hasOwnProperty(initial, ObjectKeys(changes)[i])
    THEN [err |-> errorHandler("changeField"), ret |-> Undefined]
  ELSE [err |-> NoError, ret |-> changes]

\* validateSelector letting objects pass as well as functions
validateSelector_OrObject(selector) ==
  IF ~(isFunction(selector) \/ isObject(selector))
    THEN errorHandler("selectorType") ELSE NoError

\* validateSelector with its test negated: it throws for functions
validateSelector_Negated(selector) ==
  IF isFunction(selector) THEN errorHandler("selectorType") ELSE NoError

validateSelector(selector) ==
  IF ~isFunction(selector) THEN errorHandler("selectorType") ELSE NoError

\* validateHandler with `every` for `some`: one callable value is enough
validateHandler_Every(handler) ==
  IF ~(isFunction(handler) \/ isObject(handler))
    THEN errorHandler("handlerType")
  ELSE IF isObject(handler)
          /\ Len(ObjectValues(handler)) > 0
          /\ \A i \in 1..Len(ObjectValues(handler)) :
                ~isFunction(ObjectValues(handler)[i])
    THEN errorHandler("handlersType")
  ELSE NoError

validateHandler(handler) ==
  IF ~(isFunction(handler) \/ isObject(handler))
    THEN errorHandler("handlerType")
  ELSE IF isObject(handler)
          /\ \E i \in 1..Len(ObjectValues(handler)) :
                ~isFunction(ObjectValues(handler)[i])
    THEN errorHandler("handlersType")
  ELSE NoError

\* validateInitial with the type check before the presence check
validateInitial_TypeFirst(initial) ==
  IF ~isObject(initial) THEN errorHandler("initialType")
  ELSE IF ~Truthy(initial) THEN errorHandler("initialIsRequired")
  ELSE IF isEmpty(initial) THEN errorHandler("initialContent")
  ELSE NoError

validateInitial(initial) ==
  IF ~Truthy(initial) THEN errorHandler("initialIsRequired")
  ELSE IF ~isObject(initial) THEN errorHandler("initialType")
  ELSE IF isEmpty(initial) THEN errorHandler("initialContent")
  ELSE NoError

(***************************************************************************)
(* Arguments the callers pass: the values of the repository's tests and    *)
(* their neighbours.                                                       *)
(***************************************************************************)
Dark  == Obj(<< <<"theme", Str("dark")>> >>)
Light == Obj(<< <<"mode", Str("light")>> >>)

InitialXY == Obj(<< <<"x", Num("0")>>, <<"y", Num("1")>> >>)
InitialCX == Obj(<< <<"config", Dark>>, <<"x", Num("0")>> >>)

ValidInitials == {InitialXY, InitialCX}

InvalidInitials ==
  { Undefined, Null, Num("0"), Num("NaN"), Str(""), Bool("false"),
    Num("47"), Str("string"), Bool("true"),
    Arr(<< <<"0", Num("1")>> >>), Fn("inc"), Obj(<<>>) }

Initials == ValidInitials \cup InvalidInitials

ValidHandlers ==
  { Undefined, Fn("handler"), Obj(<<>>),
    Obj(<< <<"x", Fn("hx")>> >>),
    Obj(<< <<"x", Fn("hx")>>, <<"y", Fn("hy")>> >>),
    Obj(<< <<"z", Fn("hz")>>, <<"y", Fn("hy")>> >>) }

InvalidHandlers ==
  { Null, Str("string"), Num("0"), Arr(<< <<"0", Num("1")>> >>),
    Obj(<< <<"x", Fn("hx")>>, <<"y", Str("not a function")>> >>),
    Obj(<< <<"x", Num("1")>> >>) }

Handlers == ValidHandlers \cup InvalidHandlers

\* the change functions callers pass to setState, by name
ChangeFns == {"constZ", "constY", "copyYtoX", "ident", "noop", "array"}

\* fn(state): the value the named function returns for the state
Apply(fn, current) ==
  CASE fn = "constZ"   -> Obj(<< <<"z", Num("5")>> >>)
    [] fn = "constY"   -> Obj(<< <<"y", Num("5")>> >>)
    [] fn = "copyYtoX" ->
         Obj(<< <<"x", IF hasOwnProperty(current, "y")
                         THEN Get(current, "y") ELSE Undefined>> >>)
    [] fn = "ident"    -> current
    [] fn = "pickX"    ->
         Obj(<< <<"x", IF hasOwnProperty(current, "x")
                         THEN Get(current, "x") ELSE Undefined>> >>)
    [] fn = "array"    -> Arr(<< <<"0", Num("1")>> >>)
    [] OTHER           -> Undefined

ObjectChanges ==
  { Obj(<<>>),
    Obj(<< <<"x", Num("2")>> >>),
    Obj(<< <<"x", Num("0")>> >>),
    Obj(<< <<"y", Num("5")>>, <<"x", Num("2")>> >>),
    Obj(<< <<"config", Light>> >>),
    Obj(<< <<"z", Num("4")>> >>),
    Obj(<< <<"x", Num("2")>>, <<"z", Num("4")>> >>) }

NonObjectChanges ==
  { Null, Str("string"), Num("NaN"), Num("0"), Str(""), Num("47"),
    Arr(<< <<"0", Num("1")>> >>) }

Changes == ObjectChanges \cup NonObjectChanges \cup {Fn(f) : f \in ChangeFns}

\* the number of setState calls a run makes
MaxCalls == 3

(***************************************************************************)
(* The factory.                                                            *)
(***************************************************************************)
VARIABLES
  live,       \* createState has returned [getState, setState]
  initial,    \* the initial state createState was given
  handler,    \* the handler createState was given (Undefined: none)
  state,      \* the live state
  globalLog,  \* the arguments of the global handler's invocations, in order
  fieldLog,   \* the <<key, argument>> of the per-field handlers' invocations
  fnLog,      \* the arguments of the change functions' invocations
  op,         \* the last operation called
  arg,        \* its argument(s)
  err,        \* the message it threw, NoError if it returned
  calls,      \* the number of setState calls made
  updates,    \* the number of setState calls that returned
  ret,        \* what the last operation returned, if it was getState
  trace,      \* the events of the last operation, if it was setState
  other,      \* a second instance: its live, initial, handler, state, logs
  alias       \* same: both instances were given the same initial object;
              \* mine, theirs: the instance's live state is still the
              \* object it was given

vars == <<live, initial, handler, state, globalLog, fieldLog, fnLog,
          op, arg, err, calls, updates, ret, trace, other, alias>>

Init ==
  /\ live = FALSE
  /\ initial = Undefined
  /\ handler = Undefined
  /\ state = Undefined
  /\ globalLog = <<>>
  /\ fieldLog = <<>>
  /\ fnLog = <<>>
  /\ op = "none"
  /\ arg = <<>>
  /\ err = NoError
  /\ calls = 0
  /\ updates = 0
  /\ ret = Undefined
  /\ trace = <<>>
  /\ other = [live |-> FALSE, initial |-> Undefined, handler |-> Undefined,
              state |-> Undefined, globalLog |-> <<>>, fieldLog |-> <<>>]
  /\ alias = [same |-> FALSE, mine |-> TRUE, theirs |-> TRUE]

\* createState's checks: the initial state, then the handler if one is given
create(i, h) ==
  IF validateInitial(i) # NoError THEN validateInitial(i)
  ELSE IF h # Undefined THEN validateHandler(h)
  ELSE NoError

\* the change as a concrete value: a function is called with the state
extractChanges(current, causedChanges) ==
  IF isFunction(causedChanges)
    THEN Apply(causedChanges.lit, current)
    ELSE causedChanges

\* {...a, ...b}: b's values replace a's under the same key, in a's position;
\* b's other entries follow in b's order
RECURSIVE Spread(_, _)
Spread(a, b) ==
  IF Len(b.entries) = 0 THEN a
  ELSE LET e == Head(b.entries)
           rest == [b EXCEPT !.entries = Tail(b.entries)]
           put == IF hasOwnProperty(a, e[1])
                    THEN [i \in 1..Len(a.entries) |->
                            IF a.entries[i][1] = e[1] THEN e ELSE a.entries[i]]
                    ELSE Append(a.entries, e)
       IN  Spread(Obj(put), rest)

updateState(current, changes) == Spread(current, changes)

\* the merged object written over the object the live state was
assign_InPlace(current, next) == [state |-> next, inPlace |-> TRUE]

\* the live state after the merge: the merged object takes the place of
\* the object the live state was, which is left as it is
assign(current, next) == [state |-> next, inPlace |-> FALSE]

\* what a call leaves in the trace: the event, the nesting depth of the
\* setState call it belongs to, the key of a per-field handler and the value
\* concerned (the resolved change, the merged state, a handler's argument)
Ev(ev, depth, key, val) == [ev |-> ev, depth |-> depth, key |-> key, val |-> val]

\* the message of the error a failing handler raises
HandlerFailure == "handler failed"

\* the handlers callers register, by name: the ones that raise
Throws(fn) == fn.lit \in {"thrower", "tx", "ty"}

\* the handler that calls setState itself: reenter sets y to 5 once x is 2,
\* reenterZ asks for an unknown key once x is 2
Reenters(fn, current) ==
  /\ fn.lit \in {"reenter", "reenterZ"}
  /\ hasOwnProperty(current, "x") /\ Get(current, "x") = Num("2")
  /\ fn.lit = "reenter"
       => hasOwnProperty(current, "y") /\ Get(current, "y") # Num("5")

NestedChange(fn) ==
  IF fn.lit = "reenter" THEN Obj(<< <<"y", Num("5")>> >>)
                        ELSE Obj(<< <<"z", Num("4")>> >>)

\* the per-field notifications of one update: the handler of every changed
\* key that has one, in the order of the change's keys, with the field's
\* value; a handler that raises ends the round
RECURSIVE notifyFields(_, _, _, _)
notifyFields(current, h, keys, depth) ==
  IF Len(keys) = 0
    THEN [err |-> NoError, field |-> <<>>, trace |-> <<>>]
  ELSE IF ~hasOwnProperty(h, Head(keys))
    THEN notifyFields(current, h, Tail(keys), depth)
  ELSE LET k == Head(keys)
           v == Get(current, k)
       IN  IF Throws(Get(h, k))
             THEN [err |-> HandlerFailure, field |-> << <<k, v>> >>,
                   trace |-> <<Ev("handler", depth, k, v)>>]
             ELSE LET rest == notifyFields(current, h, Tail(keys), depth)
                  IN  [err |-> rest.err, field |-> << <<k, v>> >> \o rest.field,
                       trace |-> <<Ev("handler", depth, k, v),
                                   Ev("handled", depth, k, v)>> \o rest.trace]

RECURSIVE setStateAt(_, _, _, _, _)

\* the handler invocations one update makes, after the merge: the global
\* handler once with the whole state, or the per-field handlers.  A global
\* handler may call setState itself; the nested call runs to its end inside
\* the invocation, and an error it throws leaves the handler uncaught.
didStateUpdate(current, init, h, changes, depth) ==
  IF isFunction(h)
    THEN IF Throws(h)
           THEN [err |-> HandlerFailure, state |-> current,
                 global |-> <<current>>, field |-> <<>>,
                 trace |-> <<Ev("handler", depth, "", current)>>]
         ELSE IF Reenters(h, current)
           THEN LET nested == setStateAt(current, init, h, NestedChange(h), depth + 1)
                IN  [err |-> nested.err, state |-> nested.state,
                     global |-> <<current>> \o nested.global, field |-> <<>>,
                     trace |-> <<Ev("handler", depth, "", current)>> \o nested.trace
                               \o IF nested.err = NoError
                                    THEN <<Ev("handled", depth, "", current)>>
                                    ELSE <<>>]
         ELSE [err |-> NoError, state |-> current,
               global |-> <<current>>, field |-> <<>>,
               trace |-> <<Ev("handler", depth, "", current),
                           Ev("handled", depth, "", current)>>]
  ELSE IF h = Undefined
    THEN [err |-> NoError, state |-> current, global |-> <<>>, field |-> <<>>,
          trace |-> <<>>]
  ELSE LET told == notifyFields(current, h, ObjectKeys(changes), depth)
       IN  [err |-> told.err, state |-> current, global |-> <<>>,
            field |-> told.field, trace |-> told.trace]

\* one setState call at a nesting depth: resolve, validate, merge, notify.
\* The result is the message thrown (NoError if none), the state
\* afterwards, the handler invocations made, the trace of the call and how
\* the merged state was stored (none: nothing was merged).
setStateAt(current, init, h, causedChanges, depth) ==
  LET changes == extractChanges(current, causedChanges)
      valid == validateChanges(init, changes)
      before == <<Ev("call", depth, "", causedChanges)>>
                \o (IF isFunction(causedChanges)
                      THEN <<Ev("resolve", depth, "", changes)>> ELSE <<>>)
                \o <<Ev("validate", depth, "", changes)>>
  IN  IF valid.err # NoError
        THEN [err |-> valid.err, state |-> current,
              global |-> <<>>, field |-> <<>>, store |-> "none",
              trace |-> before \o <<Ev("throw", depth, "", Undefined)>>]
        ELSE LET kept == assign(current, updateState(current, valid.ret))
                 next == kept.state
                 told == didStateUpdate(next, init, h, valid.ret, depth)
             IN  [err |-> told.err, state |-> told.state,
                  global |-> told.global, field |-> told.field,
                  store |-> IF kept.inPlace THEN "inPlace" ELSE "replaced",
                  trace |-> before \o <<Ev("merge", depth, "", next)>>
                            \o told.trace
                            \o <<Ev(IF told.err = NoError THEN "return" ELSE "throw",
                                    depth, "", Undefined)>>]

\* one setState call made by the caller
setState(current, init, h, causedChanges) ==
  setStateAt(current, init, h, causedChanges, 0)

CreateState(i, h) ==
  /\ ~live
  /\ op' = "createState"
  /\ arg' = <<i, h>>
  /\ err' = create(i, h)
  /\ IF create(i, h) = NoError
       THEN /\ live' = TRUE
            /\ initial' = i
            /\ handler' = h
            /\ state' = i
       ELSE UNCHANGED <<live, initial, handler, state>>
  /\ ret' = Undefined
  /\ trace' = <<>>
  /\ UNCHANGED <<globalLog, fieldLog, fnLog, calls, updates, other, alias>>

SetState(causedChanges) ==
  /\ live
  /\ calls < MaxCalls
  /\ op' = "setState"
  /\ arg' = <<causedChanges>>
  /\ calls' = calls + 1
  /\ fnLog' = IF isFunction(causedChanges) THEN Append(fnLog, state) ELSE fnLog
  /\ LET done == setState(state, initial, handler, causedChanges)
     IN  /\ err' = done.err
         /\ state' = done.state
         /\ globalLog' = globalLog \o done.global
         /\ fieldLog' = fieldLog \o done.field
         /\ updates' = IF done.err = NoError THEN updates + 1 ELSE updates
         /\ trace' = done.trace
         /\ alias' = [alias EXCEPT !.mine = IF done.store = "replaced"
                                             THEN FALSE ELSE alias.mine]
         \* an object written in place changes for all who hold it
         /\ other' = IF done.store = "inPlace"
                         /\ alias.same /\ alias.mine /\ alias.theirs
                        THEN [other EXCEPT !.state = done.state]
                        ELSE other
  /\ ret' = Undefined
  /\ UNCHANGED <<live, initial, handler>>

\* createState called a second time, with the object the first instance
\* was given (sameObject) or with another one
CreateOther(i, h, sameObject) ==
  /\ live
  /\ ~other.live
  /\ sameObject => i = IF alias.mine THEN state ELSE initial
  /\ op' = "createState2"
  /\ arg' = <<i, h>>
  /\ err' = create(i, h)
  /\ IF create(i, h) = NoError
       THEN /\ other' = [live |-> TRUE, initial |-> i, handler |-> h,
                         state |-> i, globalLog |-> <<>>, fieldLog |-> <<>>]
            /\ alias' = [alias EXCEPT !.same = sameObject, !.theirs = TRUE]
       ELSE UNCHANGED <<other, alias>>
  /\ ret' = Undefined
  /\ trace' = <<>>
  /\ UNCHANGED <<live, initial, handler, state, globalLog, fieldLog, fnLog,
                 calls, updates>>

\* setState of the second instance
SetOther(causedChanges) ==
  /\ other.live
  /\ calls < MaxCalls
  /\ op' = "setState2"
  /\ arg' = <<causedChanges>>
  /\ calls' = calls + 1
  /\ fnLog' = IF isFunction(causedChanges)
                THEN Append(fnLog, other.state) ELSE fnLog
  /\ LET done == setState(other.state, other.initial, other.handler, causedChanges)
     IN  /\ err' = done.err
         /\ other' = [other EXCEPT !.state = done.state,
                                   !.globalLog = @ \o done.global,
                                   !.fieldLog = @ \o done.field]
         /\ trace' = done.trace
         /\ alias' = [alias EXCEPT !.theirs = IF done.store = "replaced"
                                               THEN FALSE ELSE alias.theirs]
         /\ state' = IF done.store = "inPlace"
                         /\ alias.same /\ alias.mine /\ alias.theirs
                        THEN done.state
                        ELSE state
  /\ ret' = Undefined
  /\ UNCHANGED <<live, initial, handler, globalLog, fieldLog, updates>>

\* getState(selector): without a selector the live state; with one, the
\* selector is validated and its result for the live state returned
getState(current, selector) ==
  IF selector = Undefined
    THEN [err |-> NoError, ret |-> current]
  ELSE IF validateSelector(selector) # NoError
    THEN [err |-> validateSelector(selector), ret |-> Undefined]
  ELSE [err |-> NoError, ret |-> Apply(selector.lit, current)]

GetState(selector) ==
  /\ live
  /\ op' = "getState"
  /\ arg' = <<selector>>
  /\ err' = getState(state, selector).err
  /\ ret' = getState(state, selector).ret
  /\ trace' = <<>>
  /\ UNCHANGED <<live, initial, handler, state, globalLog, fieldLog, fnLog,
                 calls, updates, other, alias>>

Next ==
  \/ \E i \in Initials, h \in Handlers : CreateState(i, h)
  \/ \E c \in Changes : SetState(c)

Spec == Init /\ [][Next]_vars

(***************************************************************************)
(* Reading: createState, setState and getState with and without selector.  *)
(***************************************************************************)
ReadHandlers ==
  { Undefined, Fn("handler"),
    Obj(<< <<"x", Fn("hx")>>, <<"y", Fn("hy")>> >>) }

ReadChanges ==
  { Obj(<< <<"x", Num("2")>> >>),
    Obj(<< <<"y", Num("5")>>, <<"x", Num("2")>> >>),
    Obj(<< <<"config", Light>> >>),
    Obj(<< <<"z", Num("4")>> >>),
    Null,
    Fn("constY") }

SelectorFns == {Fn("ident"), Fn("pickX"), Fn("copyYtoX"), Fn("noop")}

NonFunctionSelectors ==
  { Null, Str("string"), Obj(<<>>), Num("NaN"), Num("0"), Str(""), Num("47") }

\* Undefined: getState() without an argument
Selectors == {Undefined} \cup SelectorFns \cup NonFunctionSelectors

NextRead ==
  \/ \E i \in ValidInitials, h \in ReadHandlers : CreateState(i, h)
  \/ \E c \in ReadChanges : SetState(c)
  \/ \E s \in Selectors : GetState(s)

SpecRead == Init /\ [][NextRead]_vars

(***************************************************************************)
(* Properties.  In an action formula the unprimed variables are the state  *)
(* before the call and the primed ones the state after it.                 *)
(***************************************************************************)
(* Handlers that act: handlers that raise and handlers that call setState. *)
(***************************************************************************)
ActingHandlers ==
  { Fn("handler"), Fn("thrower"), Fn("reenter"), Fn("reenterZ"),
    Obj(<< <<"x", Fn("tx")>>, <<"y", Fn("hy")>> >>),
    Obj(<< <<"x", Fn("hx")>>, <<"y", Fn("ty")>> >>) }

ActingChanges ==
  { Obj(<< <<"x", Num("2")>> >>),
    Obj(<< <<"y", Num("5")>> >>),
    Obj(<< <<"y", Num("5")>>, <<"x", Num("2")>> >>),
    Obj(<< <<"x", Num("2")>>, <<"y", Num("1")>> >>),
    Obj(<< <<"z", Num("4")>> >>),
    Null,
    Fn("copyYtoX") }

NextActing ==
  \/ \E i \in ValidInitials, h \in ActingHandlers : CreateState(i, h)
  \/ \E c \in ActingChanges : SetState(c)

SpecActing == Init /\ [][NextActing]_vars

(***************************************************************************)
(* Two instances, made from the same initial object or from two objects.   *)
(***************************************************************************)
PairHandlers ==
  { Fn("handler"), Obj(<< <<"x", Fn("hx")>>, <<"y", Fn("hy")>> >>) }

PairChanges ==
  { Obj(<< <<"x", Num("2")>> >>),
    Obj(<< <<"y", Num("5")>>, <<"x", Num("2")>> >>),
    Obj(<< <<"z", Num("4")>> >>),
    Fn("constY") }

NextPair ==
  \/ \E h \in PairHandlers : CreateState(InitialXY, h)
  \/ \E i \in {state, initial, InitialXY}, h \in PairHandlers, same \in BOOLEAN :
        CreateOther(i, h, same)
  \/ \E c \in PairChanges : SetState(c)
  \/ \E c \in PairChanges : SetOther(c)

SpecPair == Init /\ [][NextPair]_vars

(***************************************************************************)
\* a step that is a setState call
SetStateStep == op' = "setState" /\ calls' = calls + 1

\* the change a setState argument stands for in the state `current`
Resolved(current, c) == IF c.kind = "function" THEN Apply(c.lit, current) ELSE c

\* the change is a plain object whose keys are all keys of the initial state
Acceptable(init, changes) ==
  /\ changes.kind = "object"
  /\ KeySet(changes) \subseteq KeySet(init)

\* the state with the values of the change's keys replaced
Merged(current, changes) ==
  Obj([i \in 1..Len(current.entries) |->
         LET k == current.entries[i][1]
         IN  IF k \in KeySet(changes) THEN <<k, Get(changes, k)>>
                                      ELSE current.entries[i]])

\* C1: a setState call that fails validation (the call throws, or its
\* resolved change is not a plain object or has a key the initial state
\* lacks) leaves the state as it was and invokes no handler.
C1_FailedSetStateChangesNothing ==
  [][ (SetStateStep
        /\ (err' # NoError \/ ~Acceptable(initial, Resolved(state, arg'[1]))))
      => /\ state' = state
         /\ globalLog' = globalLog
         /\ fieldLog' = fieldLog ]_vars

\* C1 witness: a function change with an unknown key has just been refused,
\* after an update that a handler was told about
C1_Witness ==
  /\ op = "setState"
  /\ arg[1] = Fn("constZ")
  /\ err = errorMessages.changeField
  /\ updates > 0
  /\ state # initial
  /\ Len(globalLog) + Len(fieldLog) > 0

\* C2: in every state the keys of the live state are the keys of the
\* initial state.
C2_KeySetFixed == live => KeySet(state) = KeySet(initial)

\* C2 witness: after successful and refused calls of both forms
C2_Witness ==
  /\ live
  /\ updates >= 2
  /\ calls > updates
  /\ Len(fnLog) > 0
  /\ state # initial

\* C3: a successful setState is a shallow merge: every key of the resolved
\* change holds the change's value, whole, and every other key keeps the
\* value it had.
C3_ShallowMerge ==
  [][ (SetStateStep /\ err' = NoError)
      => LET changes == Resolved(state, arg'[1])
         IN  /\ \A k \in KeySet(changes) :
                  hasOwnProperty(state', k) /\ Get(state', k) = Get(changes, k)
             /\ \A k \in KeySet(state) \ KeySet(changes) :
                  hasOwnProperty(state', k) /\ Get(state', k) = Get(state, k) ]_vars

\* C3 witness: a nested object has been replaced by one with other keys and
\* a key the last change did not list kept the value of an earlier change
C3_Witness ==
  /\ op = "setState"
  /\ err = NoError
  /\ arg[1] = Obj(<< <<"config", Light>> >>)
  /\ hasOwnProperty(state, "config") /\ hasOwnProperty(state, "x")
  /\ Get(state, "config") = Light
  /\ Get(state, "x") = Num("2")

\* C4: with a global handler, the handler has been invoked once per
\* successful setState, and each successful setState invokes it with the
\* whole merged state as of that update.
C4_GlobalHandlerPerUpdate ==
  [][ /\ isFunction(handler') => Len(globalLog') = updates'
      /\ (SetStateStep /\ handler.kind = "function"
            /\ Acceptable(initial, Resolved(state, arg'[1])))
         => globalLog' =
              Append(globalLog, Merged(state, Resolved(state, arg'[1]))) ]_vars

\* C4 witness: three updates, one of which changed no value, the last one
\* in function form
C4_Witness ==
  /\ handler = Fn("handler")
  /\ updates = 3
  /\ Len(globalLog) = 3
  /\ globalLog[1] # initial
  /\ globalLog[2] = globalLog[1]
  /\ globalLog[3] # globalLog[2]
  /\ arg[1].kind = "function"

\* C5: with a handler map, a successful setState invokes the handler of key
\* k once, with the new value of k, iff k is a key of the resolved change
\* and of the map; no other handler is invoked.
C5_FieldHandlers ==
  [][ (SetStateStep /\ handler.kind = "object"
         /\ Acceptable(initial, Resolved(state, arg'[1])))
      => LET changes == Resolved(state, arg'[1])
             due == KeySet(changes) \cap KeySet(handler)
             n == Len(fieldLog)
         IN  /\ err' = NoError
             /\ Len(fieldLog') = n + Cardinality(due)
             /\ SubSeq(fieldLog', 1, n) = fieldLog
             /\ \A k \in due :
                  \E i \in (n + 1)..Len(fieldLog') :
                     fieldLog'[i] = <<k, Get(changes, k)>> ]_vars

\* C5 witness: a change of two keys, one with a handler and one without,
\* and a handler whose key was not changed
C5_Witness ==
  /\ handler = Obj(<< <<"z", Fn("hz")>>, <<"y", Fn("hy")>> >>)
  /\ op = "setState"
  /\ arg[1] = Obj(<< <<"y", Num("5")>>, <<"x", Num("2")>> >>)
  /\ err = NoError
  /\ fieldLog = << <<"y", Num("5")>> >>

\* C6: setState(f) calls f once with the current state and then does what
\* setState(f(state)) does: the same state, the same handler invocations,
\* the same error.
C6_FunctionForm ==
  [][ (SetStateStep /\ arg'[1].kind = "function")
      => LET same == setState(state, initial, handler, Apply(arg'[1].lit, state))
         IN  /\ fnLog' = Append(fnLog, state)
             /\ err' = same.err
             /\ state' = same.state
             /\ globalLog' = globalLog \o same.global
             /\ fieldLog' = fieldLog \o same.field ]_vars

\* C6 witness: a function that reads the state was called with a state
\* that an earlier update had changed, and its change was merged
C6_Witness ==
  /\ op = "setState"
  /\ arg[1] = Fn("copyYtoX")
  /\ err = NoError
  /\ Len(fnLog) > 0
  /\ fnLog[Len(fnLog)] # initial
  /\ hasOwnProperty(state, "x")
  /\ Get(state, "x") = Num("5")

\* C7: setState throws ChangeField whenever the resolved change is an
\* object with a key that is not a key of the initial state, in both forms,
\* however many valid keys it has.
C7_ChangeField ==
  [][ (SetStateStep
         /\ Resolved(state, arg'[1]).kind = "object"
         /\ ~(KeySet(Resolved(state, arg'[1])) \subseteq KeySet(initial)))
      => err' = errorMessages.changeField ]_vars

\* C7 witness: a change with a valid and an unknown key has been refused
C7_Witness ==
  /\ op = "setState"
  /\ arg[1] = Obj(<< <<"x", Num("2")>>, <<"z", Num("4")>> >>)
  /\ err = errorMessages.changeField

\* C8: setState throws ChangeType when its argument is neither a plain
\* object nor a function, and when it is a function that returns no plain
\* object; the type is checked before the fields (an array, whose keys are
\* no keys of the initial state, is refused for its type).
C8_ChangeType ==
  [][ (SetStateStep /\ Resolved(state, arg'[1]).kind # "object")
      => err' = errorMessages.changeType ]_vars

\* C8 witness: a function returning an array has been refused for its type
C8_Witness ==
  /\ op = "setState"
  /\ arg[1] = Fn("array")
  /\ err = errorMessages.changeType

\* the values `!value` takes for absent
FalsyValues == {Undefined, Null, Num("0"), Num("NaN"), Str(""), Bool("false")}

\* C9 as claimed: createState(v) throws InitialType for every v that is not
\* a plain object (primitives, arrays, functions), InitialContent for {}
\* and InitialRequired when no argument is given.
C9_AsClaimed ==
  op = "createState"
  => /\ arg[1] = Undefined => err = errorMessages.initialIsRequired
     /\ arg[1] = Obj(<<>>) => err = errorMessages.initialContent
     /\ (arg[1] # Undefined /\ arg[1].kind # "object")
          => err = errorMessages.initialType

\* C9 amended: createState(v) throws InitialType for every truthy v that is
\* not a plain object (non-empty strings, non-zero numbers, true, arrays,
\* functions) and InitialRequired for every falsy v (null, 0, NaN, '',
\* false, or no argument); createState({}) throws InitialContent.
C9_InitialErrors ==
  op = "createState"
  => /\ arg[1] \in FalsyValues => err = errorMessages.initialIsRequired
     /\ arg[1] = Obj(<<>>) => err = errorMessages.initialContent
     /\ (arg[1] \notin FalsyValues /\ arg[1].kind # "object")
          => err = errorMessages.initialType

\* C9 witness: createState has refused an array for its type
C9_Witness ==
  /\ op = "createState"
  /\ arg[1] = Arr(<< <<"0", Num("1")>> >>)
  /\ err = errorMessages.initialType
  /\ ~live

\* C10: with a valid initial state, createState throws HandlerType for a
\* handler that is neither a function nor a plain object, and HandlersType
\* for a plain object with a value that is no function; in both cases
\* nothing is constructed.
C10_HandlerErrors ==
  (op = "createState" /\ arg[1] \in ValidInitials)
  => /\ arg[2].kind \notin {"undefined", "function", "object"}
          => err = errorMessages.handlerType /\ ~live
     /\ (arg[2].kind = "object"
           /\ \E i \in 1..Len(arg[2].entries) :
                 arg[2].entries[i][2].kind # "function")
          => err = errorMessages.handlersType /\ ~live

\* C10 witness: a handler map with one function and one string was refused
C10_Witness ==
  /\ op = "createState"
  /\ arg[1] = InitialXY
  /\ arg[2] = Obj(<< <<"x", Fn("hx")>>, <<"y", Str("not a function")>> >>)
  /\ err = errorMessages.handlersType
  /\ ~live

\* a step that is a getState call
GetStateStep == op' = "getState"

\* C11: getState() returns the current merged state and getState(selector)
\* returns selector(state) for a function selector; neither changes the
\* state or invokes a handler.
C11_GetState ==
  [][ (GetStateStep /\ arg'[1].kind \in {"undefined", "function"})
      => /\ err' = NoError
         /\ ret' = IF arg'[1].kind = "undefined"
                     THEN state ELSE Apply(arg'[1].lit, state)
         /\ state' = state
         /\ globalLog' = globalLog
         /\ fieldLog' = fieldLog ]_vars

\* C11 witness: after two updates a selector returned a part of the state
\* that differs from the initial one
C11_Witness ==
  /\ op = "getState"
  /\ arg[1] = Fn("pickX")
  /\ updates >= 2
  /\ err = NoError
  /\ ret = Obj(<< <<"x", Num("2")>> >>)
  /\ hasOwnProperty(state, "y")
  /\ Get(state, "y") = Num("5")

\* C12: getState(selector) throws SelectorType for every selector that is
\* given and is no function, and leaves the state as it was.
C12_SelectorType ==
  [][ (GetStateStep /\ arg'[1].kind \notin {"undefined", "function"})
      => /\ err' = errorMessages.selectorType
         /\ state' = state
         /\ globalLog' = globalLog
         /\ fieldLog' = fieldLog ]_vars

\* C12 witness: a plain object was refused as selector after an update
C12_Witness ==
  /\ op = "getState"
  /\ arg[1] = Obj(<<>>)
  /\ err = errorMessages.selectorType
  /\ updates > 0
  /\ state # initial

\* the names of a trace's events, in order
EventNames(t) == [i \in 1..Len(t) |-> t[i].ev]

\* the number of handler invocations a successful update is due
Due(h, changes) ==
  IF h.kind = "function" THEN 1
  ELSE IF h.kind = "object" THEN Cardinality(KeySet(changes) \cap KeySet(h))
  ELSE 0

\* n handler invocations, each begun and ended before the next
Invocations(n) ==
  [i \in 1..(2 * n) |-> IF i % 2 = 1 THEN "handler" ELSE "handled"]

\* C13: one setState call resolves, validates, merges and notifies in that
\* order, and the merge and every handler invocation are over when it
\* returns: the events of the call are call, resolve (function form),
\* validate, and then throw, or merge, the due handler invocations, return.
C13_Synchronous ==
  [][ SetStateStep
      => LET changes == Resolved(state, arg'[1])
             head == <<"call">>
                     \o (IF arg'[1].kind = "function" THEN <<"resolve">> ELSE <<>>)
                     \o <<"validate">>
         IN  /\ EventNames(trace') =
                  head \o (IF Acceptable(initial, changes)
                             THEN <<"merge">>
                                  \o Invocations(Due(handler, changes))
                                  \o <<"return">>
                             ELSE <<"throw">>)
             /\ \A i \in 1..Len(trace') :
                  /\ trace'[i].ev = "validate" => trace'[i].val = changes
                  /\ trace'[i].ev = "merge" => trace'[i].val = state'
                  /\ trace'[i].ev = "handler"
                       => trace'[i].val = IF trace'[i].key = "" THEN state'
                                          ELSE Get(state', trace'[i].key) ]_vars

\* C13 witness: a function change of two keys, both with a handler, has
\* been resolved, validated, merged and notified
C13_Witness ==
  /\ op = "setState"
  /\ arg[1] = Fn("ident")
  /\ handler = Obj(<< <<"x", Fn("hx")>>, <<"y", Fn("hy")>> >>)
  /\ updates >= 2
  /\ EventNames(trace) = <<"call", "resolve", "validate", "merge", "handler",
                           "handled", "handler", "handled", "return">>

\* C14: with a handler map, the handlers of one update are invoked in the
\* order of the keys of the resolved change.
C14_ChangeOrder ==
  [][ (SetStateStep /\ handler.kind = "object"
         /\ Acceptable(initial, Resolved(state, arg'[1])))
      => LET changes == Resolved(state, arg'[1])
             due == SelectSeq(ObjectKeys(changes), LAMBDA k : k \in KeySet(handler))
             n == Len(fieldLog)
         IN  /\ Len(fieldLog') = n + Len(due)
             /\ \A i \in 1..Len(due) : fieldLog'[n + i][1] = due[i] ]_vars

\* C14 witness: a change listing y before x has invoked the handler of y
\* before that of x, against the order of the handler map and of the state
C14_Witness ==
  /\ handler = Obj(<< <<"x", Fn("hx")>>, <<"y", Fn("hy")>> >>)
  /\ initial = InitialXY
  /\ op = "setState"
  /\ arg[1] = Obj(<< <<"y", Num("5")>>, <<"x", Num("2")>> >>)
  /\ fieldLog = << <<"y", Num("5")>>, <<"x", Num("2")>> >>

\* C15: createState checks the presence, the type and the content of the
\* initial state, then the type and the values of the handler, and throws
\* for the first check that fails: a falsy initial state throws
\* InitialRequired, and an invalid initial state is reported whatever the
\* handler.
C15_CheckOrder ==
  op = "createState"
  => LET i == arg[1]
         h == arg[2]
     IN  err =
           IF i \in FalsyValues THEN errorMessages.initialIsRequired
           ELSE IF i.kind # "object" THEN errorMessages.initialType
           ELSE IF Len(i.entries) = 0 THEN errorMessages.initialContent
           ELSE IF h.kind \notin {"undefined", "function", "object"}
             THEN errorMessages.handlerType
           ELSE IF h.kind = "object"
                   /\ \E j \in 1..Len(h.entries) : h.entries[j][2].kind # "function"
             THEN errorMessages.handlersType
           ELSE NoError

\* C15 witness: a falsy initial state was reported although the handler
\* was invalid too
C15_Witness ==
  /\ op = "createState"
  /\ arg = <<Num("0"), Str("string")>>
  /\ err = errorMessages.initialIsRequired
  /\ ~live

\* the keys whose handlers one update invokes given that a handler that
\* raises ends the round: the due keys up to the first whose handler raises
RECURSIVE UpToFirstRaise(_, _)
UpToFirstRaise(h, keys) ==
  IF Len(keys) = 0 THEN <<>>
  ELSE IF Throws(Get(h, Head(keys))) THEN <<Head(keys)>>
  ELSE <<Head(keys)>> \o UpToFirstRaise(h, Tail(keys))

\* C16: when a handler raises, the setState call throws its error and no
\* handler due later in the same update is invoked.
C16_FirstRaiseWins ==
  [][ (SetStateStep /\ Acceptable(initial, Resolved(state, arg'[1])))
      => LET changes == Resolved(state, arg'[1])
             due == SelectSeq(ObjectKeys(changes), LAMBDA k : k \in KeySet(handler))
             run == UpToFirstRaise(handler, due)
             n == Len(fieldLog)
         IN  /\ (handler.kind = "function" /\ Throws(handler))
                  => /\ err' = HandlerFailure
                     /\ Len(globalLog') = Len(globalLog) + 1
             /\ handler.kind = "object"
                  => /\ err' = IF Len(run) > 0 /\ Throws(Get(handler, run[Len(run)]))
                                 THEN HandlerFailure ELSE NoError
                     /\ Len(fieldLog') = n + Len(run)
                     /\ \A i \in 1..Len(run) : fieldLog'[n + i][1] = run[i] ]_vars

\* C16 witness: the handler of y raised and the handler of x, due after it,
\* was not invoked
C16_Witness ==
  /\ handler = Obj(<< <<"x", Fn("hx")>>, <<"y", Fn("ty")>> >>)
  /\ op = "setState"
  /\ arg[1] = Obj(<< <<"y", Num("5")>>, <<"x", Num("2")>> >>)
  /\ err = HandlerFailure
  /\ fieldLog = << <<"y", Num("5")>> >>

\* C17: a handler that raises does not undo the update: after a setState
\* call that ends with a handler's error the state is the merged one and
\* its keys are those of the initial state.
C17_NoRollback ==
  [][ (SetStateStep /\ Acceptable(initial, Resolved(state, arg'[1]))
         /\ (Throws(handler)
              \/ (handler.kind = "object"
                  /\ \E k \in KeySet(Resolved(state, arg'[1])) \cap KeySet(handler) :
                        Throws(Get(handler, k)))))
      => /\ err' = HandlerFailure
         /\ state' = Merged(state, Resolved(state, arg'[1]))
         /\ KeySet(state') = KeySet(initial) ]_vars

\* C17 witness: the global handler raised and the change is in the state
C17_Witness ==
  /\ handler = Fn("thrower")
  /\ op = "setState"
  /\ arg[1] = Obj(<< <<"x", Num("2")>> >>)
  /\ err = HandlerFailure
  /\ hasOwnProperty(state, "x")
  /\ Get(state, "x") = Num("2")
  /\ state # initial

\* the positions of a trace's events of one kind
Positions(t, ev) == {i \in 1..Len(t) : t[i].ev = ev}

\* the state a trace's position finds: that of the last merge before it,
\* or the state the call began with
StateAt(t, i, began) ==
  LET earlier == {j \in Positions(t, "merge") : j < i}
  IN  IF earlier = {} THEN began
      ELSE t[CHOOSE j \in earlier : \A l \in earlier : l <= j].val

\* C20: with a global handler that calls setState, the nested call runs
\* from its call to its end inside the handler invocation; every call that
\* merges, outer or nested, is followed by one invocation of the handler
\* with the state of that moment; and the state after the outermost call is
\* the changes merged one after the other in the order of their merges.
C20_Reentrant ==
  [][ (SetStateStep /\ handler.kind = "function")
      => LET t == trace'
             inner == {i \in 1..Len(t) : t[i].depth > 0}
             merges == Positions(t, "merge")
         IN  /\ inner # {}
                  => LET a == CHOOSE i \in inner : \A j \in inner : i <= j
                         b == CHOOSE i \in inner : \A j \in inner : j <= i
                     IN  /\ inner = a..b
                         /\ t[a].ev = "call"
                         /\ t[b].ev \in {"return", "throw"}
                         /\ t[a - 1].ev = "handler" /\ t[a - 1].depth = 0
                         /\ t[b + 1].depth = 0
                         /\ t[b + 1].ev = IF t[b].ev = "return" THEN "handled"
                                                               ELSE "throw"
             /\ \A i \in merges :
                  /\ t[i - 1].ev = "validate"
                  /\ t[i].val = Merged(StateAt(t, i, state), t[i - 1].val)
                  /\ t[i + 1].ev = "handler"
                  /\ t[i + 1].depth = t[i].depth
                  /\ t[i + 1].val = t[i].val
             /\ Cardinality(Positions(t, "handler")) = Cardinality(merges)
             /\ Len(globalLog') = Len(globalLog) + Cardinality(merges)
             /\ \A n \in 1..(Len(globalLog') - Len(globalLog)) :
                  \E i \in merges :
                     /\ Cardinality({j \in merges : j <= i}) = n
                     /\ globalLog'[Len(globalLog) + n] = t[i].val
             /\ state' = StateAt(t, Len(t) + 1, state) ]_vars

\* C20 witness: the handler called setState while it was being notified of
\* x, was notified of the nested update, and both changes are in the state
C20_Witness ==
  /\ handler = Fn("reenter")
  /\ initial = InitialXY
  /\ op = "setState"
  /\ arg[1] = Obj(<< <<"x", Num("2")>> >>)
  /\ err = NoError
  /\ EventNames(trace) = <<"call", "validate", "merge", "handler",
                           "call", "validate", "merge", "handler", "handled",
                           "return", "handled", "return">>
  /\ globalLog = << Obj(<< <<"x", Num("2")>>, <<"y", Num("1")>> >>),
                    Obj(<< <<"x", Num("2")>>, <<"y", Num("5")>> >>) >>
  /\ state = Obj(<< <<"x", Num("2")>>, <<"y", Num("5")>> >>)

\* C19: createState accepts a handler map with a key that is no key of the
\* initial state, and the handler under such a key is never invoked.
C19_ForeignHandlerNeverRuns ==
  /\ (op = "createState" /\ arg[1] \in ValidInitials /\ arg[2].kind = "object"
        /\ \A j \in 1..Len(arg[2].entries) : arg[2].entries[j][2].kind = "function")
       => err = NoError /\ live /\ handler = arg[2]
  /\ live => \A i \in 1..Len(fieldLog) : fieldLog[i][1] \in KeySet(initial)

\* C19 witness: with a handler under the foreign key z, a change of z was
\* refused after the handler of y had been invoked
C19_Witness ==
  /\ handler = Obj(<< <<"z", Fn("hz")>>, <<"y", Fn("hy")>> >>)
  /\ ~hasOwnProperty(initial, "z")
  /\ op = "setState"
  /\ arg[1] = Obj(<< <<"z", Num("4")>> >>)
  /\ err = errorMessages.changeField
  /\ Len(fieldLog) > 0

====
